---- MODULE Spec2Model ----
(***************************************************************************)
(* Model of the AI4Chat assistant backend (src/backend/server.js): the     *)
(* in-memory session map, the POST /api/chat and POST /api/track-order     *)
(* handlers with their suspension points, the keyword classifiers and the  *)
(* reply synthesis.                                                        *)
(*                                                                         *)
(* Encoding conventions                                                    *)
(*   - a JavaScript string is a TLA+ string; "" is the falsy string and    *)
(*     also stands for a missing (undefined) request field, which the      *)
(*     code only ever tests with `!x` or `x || default`;                   *)
(*   - an optional non-string field is a sequence of length 0 (absent) or  *)
(*     1 (present);                                                        *)
(*   - a session object is a cell of `heap`; userSessions maps a session   *)
(*     id to a cell number, 0 meaning "no entry".  Two handlers that hold  *)
(*     the same cell number share one JavaScript object.                   *)
(***************************************************************************)
EXTENDS Integers, Sequences, FiniteSets, TLC

(* ---------------------------------------------------------------------- *)
(* Bounds                                                                  *)
(* ---------------------------------------------------------------------- *)

\* number of HTTP requests (chat or track-order) received in one behaviour
MaxReq == 2

\* topK passed to searchKnowledgeBase by the chat handler
TopK == 5

(* ---------------------------------------------------------------------- *)
(* String helpers (String.prototype.includes / toLowerCase / replace)      *)
(* ---------------------------------------------------------------------- *)

Min(a, b) == IF a < b THEN a ELSE b

CharAt(s, i) == SubSeq(s, i, i)

\* s.indexOf(kw) >= 0 positions: the 1-based indices at which kw occurs in s
Occurrences(s, kw) ==
    {i \in 1..(Len(s) - Len(kw) + 1) : SubSeq(s, i, i + Len(kw) - 1) = kw}

\* String.prototype.includes
Includes(s, kw) == Occurrences(s, kw) # {}

UpperChars == "ABCDEFGHIJKLMNOPQRSTUVWXYZ"
LowerChars == "abcdefghijklmnopqrstuvwxyz"

LowerChar(c) ==
    IF Includes(UpperChars, c)
    THEN CharAt(LowerChars, CHOOSE i \in 1..Len(UpperChars) : CharAt(UpperChars, i) = c)
    ELSE c

RECURSIVE ToLowerCase(_)
\* String.prototype.toLowerCase (ASCII letters)
ToLowerCase(s) ==
    IF s = "" THEN ""
    ELSE LowerChar(CharAt(s, 1)) \o ToLowerCase(SubSeq(s, 2, Len(s)))

\* keywords.some(keyword => s.includes(keyword))
SomeIncluded(s, keywords) == \E k \in keywords : Includes(s, k)

(* ---------------------------------------------------------------------- *)
(* Classifiers                                                             *)
(* ---------------------------------------------------------------------- *)

personalKeywords ==
    {"my order", "my refund", "my account", "my purchase",
     "my delivery", "my package", "my return", "my payment",
     "my shipping", "i ordered", "i bought", "i purchased",
     "i paid", "i returned"}

isPersonalizedQuery(message) == SomeIncluded(ToLowerCase(message), personalKeywords)

trackingKeywords ==
    {"track", "order", "tracking", "status", "where is my order",
     "shipment", "delivery", "shipped", "delivered"}

isOrderTrackingQuery(message) == SomeIncluded(ToLowerCase(message), trackingKeywords)

productKeywords ==
    {"price", "cost", "material", "size", "color", "product",
     "buy", "purchase", "available", "stock", "features"}

isProductQuery(message) == SomeIncluded(ToLowerCase(message), productKeywords)

(* ---------------------------------------------------------------------- *)
(* Fixed replies                                                           *)
(* ---------------------------------------------------------------------- *)

OrderDisclaimer ==
    "To check your order status, please provide your order number. If you don't have it, you can find it in your order confirmation email."
RefundDisclaimer ==
    "To check your refund status, please provide your order number and the date of your refund request. You can also check your refund status in your account dashboard."
ReturnDisclaimer ==
    "For return status, please provide your return authorization number. You can find this in your return confirmation email."
PaymentDisclaimer ==
    "For payment-related queries, please check your order confirmation email or your account dashboard. For security reasons, I can't access specific payment details here."
GenericDisclaimer ==
    "I notice you're asking about your personal information. To help you better, please provide relevant details like your order number or reference number. Alternatively, you can check your account dashboard for this information."

handlePersonalizedQuery(message) ==
    LET lowerMessage == ToLowerCase(message) IN
    IF Includes(lowerMessage, "order") \/ Includes(lowerMessage, "delivery")
          \/ Includes(lowerMessage, "package")
    THEN OrderDisclaimer
    ELSE IF Includes(lowerMessage, "refund") THEN RefundDisclaimer
    ELSE IF Includes(lowerMessage, "return") THEN ReturnDisclaimer
    ELSE IF Includes(lowerMessage, "payment") THEN PaymentDisclaimer
    ELSE GenericDisclaimer

SearchTroubleReply ==
    "I'm having trouble searching the knowledge base right now. Please try again shortly."
AskOrderIdReply ==
    "I'd be happy to help you track your order! Please provide your order ID or order number."
NotFoundReply ==
    "I'm sorry, I couldn't find specific information about that. Could you please rephrase your question or ask about something else I might be able to help with?"

\* the statuses array of generateMockTrackingInfo
statuses ==
    << [status |-> "Processing", details |-> "Your order is being prepared for shipment."],
       [status |-> "Shipped", details |-> "Your order has been shipped and is on its way to you."],
       [status |-> "In Transit", details |-> "Your package is currently in transit to your delivery address."],
       [status |-> "Out for Delivery", details |-> "Your package is out for delivery and should arrive today."],
       [status |-> "Delivered", details |-> "Your order has been delivered successfully."] >>

\* Math.floor(Math.random() * statuses.length): any index of the array
RandomIndexes == 1..Len(statuses)

generateMockTrackingInfo(orderId, rnd) == statuses[rnd]

\* handleOrderTracking(message, session), context being session.context
handleOrderTracking(context, rnd) ==
    IF context.orderId # ""
    THEN LET trackingInfo == generateMockTrackingInfo(context.orderId, rnd) IN
         "Your order " \o context.orderId \o " status: " \o trackingInfo.status
            \o ". " \o trackingInfo.details
    ELSE AskOrderIdReply

(* ---------------------------------------------------------------------- *)
(* Documents returned by the knowledge retriever                           *)
(* ---------------------------------------------------------------------- *)

\* a variant of product_info.variants; available is <<>> when the field is absent
Variant(color, size, price, was, available, weight, unit) ==
    [color |-> color, size |-> size, price |-> price, compare_at_price |-> was,
     available |-> available, weight |-> weight, weight_unit |-> unit]

\* `r.product_info || {}`: every field of the empty object reads as undefined
EmptyInfo ==
    [best_price |-> "", price_range |-> "", warranty |-> "", shipping_info |-> "",
     materials |-> "", care |-> "", variants |-> <<>>, images |-> <<>>]

HoodieInfo ==
    [EmptyInfo EXCEPT
        !.best_price = "$35",
        !.materials = "Cotton",
        !.variants = << Variant("Red", "S", "$35", "", <<FALSE>>, "", ""),
                        Variant("Blue", "M", "$40", "", <<TRUE>>, "300", "g") >>]

MugInfo == [EmptyInfo EXCEPT !.best_price = "$9", !.price_range = "$9 - $12"]

Doc(title, url, score, text, info) ==
    [title |-> title, url |-> url, score |-> score, text |-> text, product_info |-> info]

\* the ranked answer of the retriever to a query, best first; at most TopK long
Corpus ==
    << Doc("Classic Hoodie", "https://shop.example/hoodie", 9,
           "Classic hoodie in red and blue.", <<HoodieInfo>>),
       Doc("Hoodie (mirror)", "https://shop.example/hoodie", 8,
           "Hoodie copy page.", <<>>),
       Doc("Steel Mug", "https://shop.example/mug", 7,
           "A steel mug.", <<MugInfo>>),
       Doc("Shipping policy", "", 6,
           "Orders ship in 3 days.", <<>>),
       Doc("About us", "https://shop.example/about", 5,
           "We sell hoodies and mugs.", <<>>) >>

\* what JSON.parse(output) gives: an array of documents, or some other JSON value
ArrayValue(items) == [isArray |-> TRUE, items |-> items]
NonArrayValue == [isArray |-> FALSE, items |-> <<>>]

\* how many documents a retrieval that prints an array finds: fewer than the
\* 3 that are cited, or more.  The empty array is left to NonArrayValue: both
\* give the empty normResults and the empty top list
ResultLengths == {2, 4}

\* the values a successful retrieval can resolve with
SearchValues ==
    {ArrayValue(SubSeq(Corpus, 1, n)) : n \in {k \in ResultLengths : k <= TopK}}
        \cup {NonArrayValue}

(* ---------------------------------------------------------------------- *)
(* Reply synthesis                                                         *)
(* ---------------------------------------------------------------------- *)

\* Array.prototype.slice(0, n)
Slice(seq, n) == SubSeq(seq, 1, Min(n, Len(seq)))

RECURSIVE Join(_, _)
\* Array.prototype.join
Join(lines, sep) ==
    IF lines = <<>> THEN ""
    ELSE IF Len(lines) = 1 THEN lines[1]
    ELSE lines[1] \o sep \o Join(Tail(lines), sep)

IsSpace(c) == c \in {" ", "\n", "\t", "\r"}

RECURSIVE TrimStart(_)
TrimStart(s) ==
    IF s # "" /\ IsSpace(CharAt(s, 1)) THEN TrimStart(SubSeq(s, 2, Len(s))) ELSE s

RECURSIVE TrimEnd(_)
TrimEnd(s) ==
    IF s # "" /\ IsSpace(CharAt(s, Len(s))) THEN TrimEnd(SubSeq(s, 1, Len(s) - 1)) ELSE s

\* String.prototype.trim
Trim(s) == TrimEnd(TrimStart(s))

\* String.prototype.replace(pat, rep) with a string pattern: first occurrence only
Replace(s, pat, rep) ==
    IF ~Includes(s, pat) THEN s
    ELSE LET i == CHOOSE k \in Occurrences(s, pat) : \A j \in Occurrences(s, pat) : k <= j IN
         SubSeq(s, 1, i - 1) \o rep \o SubSeq(s, i + Len(pat), Len(s))

WordChars == "abcdefghijklmnopqrstuvwxyz0123456789_ABCDEFGHIJKLMNOPQRSTUVWXYZ"
IsWordChar(c) == Includes(WordChars, c)

\* alt occurs at position i of s between two \b word boundaries
WordAt(s, i, alt) ==
    /\ i + Len(alt) - 1 <= Len(s)
    /\ SubSeq(s, i, i + Len(alt) - 1) = alt
    /\ (i = 1 \/ ~IsWordChar(CharAt(s, i - 1)))
    /\ (i + Len(alt) - 1 = Len(s) \/ ~IsWordChar(CharAt(s, i + Len(alt))))

\* (s.match(/\b(a1|a2|...)\b/) || [])[1]: leftmost position, then first alternative;
\* "" stands for undefined
WordMatch(s, alts) ==
    LET hits == {i \in 1..Len(s) : \E a \in 1..Len(alts) : WordAt(s, i, alts[a])} IN
    IF hits = {} THEN ""
    ELSE LET i == CHOOSE k \in hits : \A j \in hits : k <= j
             a == CHOOSE k \in 1..Len(alts) :
                     /\ WordAt(s, i, alts[k])
                     /\ \A j \in 1..Len(alts) : WordAt(s, i, alts[j]) => k <= j
         IN alts[a]

colorAlternatives == <<"blue", "green", "purple", "red", "black", "white", "gold", "silver">>
sizeAlternatives == <<"xs", "s", "m", "l", "xl", "xxl", "small", "medium", "large">>

\* the requested color of formatProductAnswer
queryColor(lower) == WordMatch(lower, colorAlternatives)

\* the requested size of formatProductAnswer, normalised
querySize(lower) ==
    LET sizeRaw == WordMatch(lower, sizeAlternatives) IN
    IF sizeRaw # ""
    THEN Replace(Replace(Replace(sizeRaw, "small", "s"), "medium", "m"), "large", "l")
    ELSE ""

\* r.product_info || {}
InfoOf(r) == IF r.product_info = <<>> THEN EmptyInfo ELSE r.product_info[1]

\* the variant predicate shared by filterByAttributes and formatProductAnswer
VariantMatches(v, color, size) ==
    /\ (color = "" \/ ToLowerCase(v.color) = color)
    /\ (size = "" \/ ToLowerCase(v.size) = size)

RECURSIVE SelectSeq2(_, _, _)
\* the elements of hits kept by filterByAttributes, in order
SelectSeq2(hits, color, size) ==
    IF hits = <<>> THEN <<>>
    ELSE LET h == Head(hits)
             variants == InfoOf(h).variants
             hasVariant == \E k \in 1..Len(variants) : VariantMatches(variants[k], color, size)
             text == ToLowerCase(h.text)
             okText == (color = "" \/ Includes(text, color)) /\ (size = "" \/ Includes(text, size))
         IN (IF hasVariant \/ okText THEN <<h>> ELSE <<>>)
               \o SelectSeq2(Tail(hits), color, size)

\* filterByAttributes returning the picked documents even when there is none
filterByAttributesNoFallback(hits, color, size) ==
    IF color = "" /\ size = "" THEN hits ELSE SelectSeq2(hits, color, size)

\* function filterByAttributes(hits, color, size), lines 299-314
filterByAttributes(hits, color, size) ==
    IF color = "" /\ size = "" THEN hits
    ELSE LET pick == SelectSeq2(hits, color, size) IN
         IF Len(pick) > 0 THEN pick ELSE hits

RECURSIVE DedupeFrom(_, _)
DedupeFrom(hits, seen) ==
    IF hits = <<>> THEN <<>>
    ELSE LET h == Head(hits) IN
         IF h.url # "" /\ h.url \notin seen
         THEN <<h>> \o DedupeFrom(Tail(hits), seen \cup {h.url})
         ELSE DedupeFrom(Tail(hits), seen)

\* function dedupeByUrl (defined, never called)
dedupeByUrl(hits) == DedupeFrom(hits, {})

\* the dedupe loop at the head of formatProductAnswer
uniqueByUrl(hits) == DedupeFrom(hits, {})

\* stands for the one-character ellipsis U+2026 appended to a snippet
Ellipsis == "..."

\* the alternations of the intent regexes of formatProductAnswer; the price
\* regex also accepts the rupee sign U+20B9, which no ASCII message contains
priceWords == {"price", "cost", "how much", "$"}
availabilityWords == {"available", "in stock", "out of stock", "stock"}
materialWords ==
    {"material", "quality", "fabric", "cotton", "leather", "steel", "wash", "care",
     "durable", "handmade"}
optionsWords == {"size", "sizes", "color", "colour", "colors", "options", "variants"}
shippingWords == {"shipping", "delivery", "returns", "refund", "warranty policy", "return policy"}
warrantyWords == {"warranty", "guarantee"}
imageWords == {"image", "photo", "picture"}
weightWords == {"weight", "heavy", "light"}

\* variants.find(pred) || variants[0], <<>> when there is no variant at all
pickVariant(variants, color, size) ==
    LET hits == {k \in 1..Len(variants) : VariantMatches(variants[k], color, size)} IN
    IF hits # {} THEN <<variants[CHOOSE k \in hits : \A j \in hits : k <= j]>>
    ELSE IF Len(variants) > 0 THEN <<variants[1]>>
    ELSE <<>>

RECURSIVE UniqueTrimmed(_, _)
\* [...new Set(values.map(x => x.trim()).filter(Boolean))]
UniqueTrimmed(values, seen) ==
    IF values = <<>> THEN <<>>
    ELSE LET x == Trim(Head(values)) IN
         IF x # "" /\ x \notin seen
         THEN <<x>> \o UniqueTrimmed(Tail(values), seen \cup {x})
         ELSE UniqueTrimmed(Tail(values), seen)

\* the lines pushed for one picked document r
productLines(lower, r, color, size) ==
    LET priceIntent == SomeIncluded(lower, priceWords)
        availabilityIntent == SomeIncluded(lower, availabilityWords)
        materialIntent == SomeIncluded(lower, materialWords)
        optionsIntent == SomeIncluded(lower, optionsWords)
        shippingIntent == SomeIncluded(lower, shippingWords)
        warrantyIntent == SomeIncluded(lower, warrantyWords)
        imageIntent == SomeIncluded(lower, imageWords)
        weightIntent == SomeIncluded(lower, weightWords)
        pi == InfoOf(r)
        title == IF r.title # "" THEN r.title ELSE "Product"
        url == r.url
        snippet == Trim(SubSeq(r.text, 1, Min(220, Len(r.text))))
        variants == pi.variants
        vMatch == pickVariant(variants, color, size)
        hasV == vMatch # <<>>
        v == vMatch[1]
        mainImageSrc ==
            IF Len(pi.images) = 0 THEN ""
            ELSE LET mainImage == pi.images[1] IN
                 IF mainImage.src # "" THEN mainImage.src
                 ELSE IF mainImage.url # "" THEN mainImage.url
                 ELSE mainImage.image
        warranty == Trim(pi.warranty)
        shippingInfo == Trim(pi.shipping_info)
        materials == Trim(pi.materials)
        care == Trim(pi.care)
        availText(x) == IF x.available = <<TRUE>> THEN "in stock" ELSE "out of stock"
        priceLines ==
            IF priceIntent /\ (hasV \/ pi.best_price # "")
            THEN IF hasV /\ v.price # ""
                 THEN LET was == Trim(v.compare_at_price)
                          avail == "(" \o availText(v) \o ")" IN
                      IF was # ""
                      THEN << "Price: " \o v.price \o " (was " \o was \o ") " \o avail >>
                      ELSE << "Price: " \o v.price \o " " \o avail >>
                 ELSE IF pi.best_price # ""
                 THEN LET range == Trim(pi.price_range) IN
                      << "Price from: " \o (IF range # "" THEN range ELSE pi.best_price) >>
                 ELSE <<>>
            ELSE <<>>
        availabilityLines ==
            IF availabilityIntent /\ hasV
            THEN << "Availability: " \o availText(v) >>
                 \o (IF v.price # ""
                     THEN LET was == Trim(v.compare_at_price) IN
                          << "Price: " \o v.price
                                \o (IF was # "" THEN " (was " \o was \o ")" ELSE "") >>
                     ELSE <<>>)
            ELSE <<>>
        materialLines ==
            IF materialIntent
            THEN (IF materials # "" THEN << "Materials: " \o materials >> ELSE <<>>)
                 \o (IF care # "" THEN << "Care: " \o care >> ELSE <<>>)
                 \o (IF materials = "" /\ care = "" THEN << snippet \o Ellipsis >> ELSE <<>>)
            ELSE <<>>
        optionsLines ==
            IF optionsIntent
            THEN IF Len(variants) > 0
                 THEN LET colors == UniqueTrimmed([k \in 1..Len(variants) |-> variants[k].color], {})
                          sizes == UniqueTrimmed([k \in 1..Len(variants) |-> variants[k].size], {})
                      IN (IF Len(colors) > 0 THEN << "Colors: " \o Join(colors, ", ") >> ELSE <<>>)
                         \o (IF Len(sizes) > 0 THEN << "Sizes: " \o Join(sizes, ", ") >> ELSE <<>>)
                 ELSE << snippet \o Ellipsis >>
            ELSE <<>>
        warrantyLines ==
            IF warrantyIntent
            THEN IF warranty # "" THEN << "Warranty: " \o warranty >>
                 ELSE << "Warranty details not specified on the product page." >>
            ELSE <<>>
        shippingLines ==
            IF shippingIntent
            THEN IF shippingInfo # "" THEN << "Shipping: " \o shippingInfo >>
                 ELSE << "Shipping/returns details not specified here. Check the store policy page via the link below." >>
            ELSE <<>>
        imageLines ==
            IF imageIntent
            THEN IF mainImageSrc # "" THEN << "Image: " \o mainImageSrc >>
                 ELSE << "No image found in metadata; see product page." >>
            ELSE <<>>
        weightLines ==
            IF weightIntent /\ hasV
            THEN IF v.weight # ""
                 THEN LET wu == Trim(v.weight_unit) IN
                      << "Weight: " \o v.weight \o (IF wu # "" THEN " " \o wu ELSE "") >>
                 ELSE << "Weight not specified for this variant." >>
            ELSE <<>>
        generalLines ==
            IF ~priceIntent /\ ~availabilityIntent /\ ~materialIntent /\ ~optionsIntent
                  /\ ~warrantyIntent /\ ~shippingIntent /\ ~imageIntent /\ ~weightIntent
            THEN LET facts ==
                        (IF pi.best_price # "" THEN << "Price from: " \o pi.best_price >> ELSE <<>>)
                        \o (IF materials # "" THEN << "Materials: " \o materials >> ELSE <<>>)
                        \o (IF care # "" THEN << "Care: " \o care >> ELSE <<>>)
                        \o (IF Len(variants) > 0 /\ hasV /\ v.available # <<>>
                            THEN << "Availability: " \o availText(v) >> ELSE <<>>)
                 IN IF facts = <<>> THEN << snippet \o Ellipsis >> ELSE facts
            ELSE <<>>
    IN <<title>> \o priceLines \o availabilityLines \o materialLines \o optionsLines
          \o warrantyLines \o shippingLines \o imageLines \o weightLines \o generalLines
          \o << "More details: " \o url >>

formatProductAnswer(query, hits) ==
    LET lower == ToLowerCase(query)
        color == queryColor(lower)
        size == querySize(lower)
        unique == uniqueByUrl(hits)
        filtered == filterByAttributes(unique, color, size)
        picked == Slice(filtered, 1)
        out == [k \in 1..Len(picked) |-> Join(productLines(lower, picked[k], color, size), "\n")]
    IN Join(out, "\n\n")

GeneralPrefix == "Based on the information I found:\n\n"
GeneralSuffix ==
    "\n\nWould you like me to provide more specific details about any particular aspect?"

\* generateResponse without the personalized-account check of lines 499-501
generateResponseNoPriority(message, results) ==
    LET top == IF results.isArray THEN Slice(results.items, 3) ELSE <<>> IN
    IF Len(top) = 0 THEN NotFoundReply
    ELSE IF isProductQuery(message) THEN formatProductAnswer(message, top)
    ELSE GeneralPrefix
            \o Join([k \in 1..Len(top) |->
                        SubSeq(top[k].text, 1, Min(300, Len(top[k].text)))], "\n\n")
            \o GeneralSuffix

\* generateResponse(message, results, session); results is a parsed JSON value
generateResponse(message, results) ==
    IF isPersonalizedQuery(message) THEN handlePersonalizedQuery(message)
    ELSE LET top == IF results.isArray THEN Slice(results.items, 3) ELSE <<>> IN
         IF Len(top) = 0 THEN NotFoundReply
         ELSE IF isProductQuery(message) THEN formatProductAnswer(message, top)
         ELSE LET context ==
                     Join([k \in 1..Len(top) |->
                              SubSeq(top[k].text, 1, Min(300, Len(top[k].text)))], "\n\n")
              IN GeneralPrefix \o context \o GeneralSuffix

(* ---------------------------------------------------------------------- *)
(* Requests and state                                                      *)
(* ---------------------------------------------------------------------- *)

\* the messages clients send; "" is a missing or empty field
ChatMessages ==
    {"", "hello", "Track shipment", "track my order", "my refund status",
     "What is the price of the blue hoodie in size M?"}
SessionIds == {"s1", "s2"}

\* bodies of POST /api/chat: every valid one, and one for each way of being invalid
ChatBodies ==
    {[message |-> m, sessionId |-> s] : m \in ChatMessages \ {""}, s \in SessionIds}
        \cup {[message |-> "", sessionId |-> "s1"],
              [message |-> "hello", sessionId |-> ""],
              [message |-> "", sessionId |-> ""]}

\* bodies of POST /api/track-order, likewise
TrackBodies ==
    {[orderId |-> "A1", sessionId |-> s, customerInfo |-> c] :
        s \in SessionIds, c \in {"", "cust"}}
        \cup {[orderId |-> "", sessionId |-> "s1", customerInfo |-> ""],
              [orderId |-> "A1", sessionId |-> "", customerInfo |-> "cust"],
              [orderId |-> "", sessionId |-> "", customerInfo |-> ""]}

Requests == 1..MaxReq

\* the classifier and the synthesizer are pure: their values on the messages
\* and retrieval results of this model, computed once
isOrderTrackingQueryOf == [m \in ChatMessages |-> isOrderTrackingQuery(m)]
isPersonalizedQueryOf == [m \in ChatMessages |-> isPersonalizedQuery(m)]
isProductQueryOf == [m \in ChatMessages |-> isProductQuery(m)]
generateResponseOf ==
    [m \in ChatMessages |->
        [v \in SearchValues \cup {ArrayValue(<<>>)} |-> generateResponse(m, v)]]

(* ---------------------------------------------------------------------- *)
(* The product synthesis called on its own                                 *)
(* ---------------------------------------------------------------------- *)

\* the longest list of documents handed to a synthesis function
MaxHits == 3

\* product-inquiry messages, none with a personalized-account phrase
ProductQueries ==
    {"What is the price of the blue hoodie in size M?",
     "Is the red hoodie in size S available?",
     "price and weight of the mug",
     "product warranty, shipping and image",
     "what material is this product",
     "tell me about this product",
     "stock of the green product in size XL"}

\* the documents of the corpus, and the hoodie as a feed that gives no url returns it
DocPool == {Corpus[k] : k \in 1..Len(Corpus)} \cup {[Corpus[1] EXCEPT !.url = ""]}

\* the retriever's answers: distinct documents, best score first
HitLists ==
    {h \in UNION {[1..n -> DocPool] : n \in 0..MaxHits} :
        \A i \in 1..Len(h), j \in 1..Len(h) :
            i < j => h[i] # h[j] /\ h[i].score >= h[j].score}

\* the color and size arguments filterByAttributes is called with; "" is undefined
FilterColors == {"", "blue", "green"}
FilterSizes == {"", "m", "s"}

\* a call: the function and its arguments (those it does not take are "")
SynthCalls ==
    {[fn |-> "generateResponse", query |-> q, color |-> "", size |-> "", hits |-> h] :
        q \in ProductQueries, h \in HitLists}
    \cup {[fn |-> "filterByAttributes", query |-> "", color |-> c, size |-> s, hits |-> h] :
        c \in FilterColors, s \in FilterSizes, h \in HitLists}
    \cup {[fn |-> "uniqueByUrl", query |-> "", color |-> "", size |-> "", hits |-> h] :
        h \in HitLists}

\* no call: the state of synth while the server runs
NoCall ==
    [call |-> [fn |-> "none", query |-> "", color |-> "", size |-> "", hits |-> <<>>],
     returned |-> <<>>, again |-> <<>>]

(* ---------------------------------------------------------------------- *)
(* The chat widget (src/unnamed/part_000, lines 1-394)                      *)
(* ---------------------------------------------------------------------- *)

\* executions of the widget script on one page
MaxRuns == 2
\* messages sent from one page
MaxSends == 2

\* what the visitor leaves in the input field
InputTexts == {"", "  ", "hi", " price? "}

\* 'session_' + random + '_' + Date.now(): some fresh string
WidgetSessionIds == {"session_a", "session_b"}

\* the fields the constructor assigns (lines 8-15); apiBaseUrl is assigned
\* nowhere, <<>> is undefined
NewWidget(sessionId) ==
    [isOpen |-> FALSE, sessionId |-> sessionId, apiUrl |-> "/api/chat",
     apiBaseUrl |-> <<>>, messages |-> <<>>]

\* `${x}`: a template literal of one value
TemplateString(x) == IF x = <<>> THEN "undefined" ELSE x[1]

\* the reply bubble of the catch block, lines 343-346
ConnectionTroubleReply ==
    "I'm sorry, I'm having trouble connecting right now. Please try again in a moment."

\* the page before the script has run.  The elements the instances reach by
\* getElementById are those of the first container in the document
NewPage ==
    [readyState |-> "loading",
     runs |-> 0,            \* executions of the script so far
     deferred |-> 0,        \* DOMContentLoaded listeners registered at lines 388-390
     global |-> 0,          \* window.AIAssistantWidget: the number of the instance, 0 if unset
     widgets |-> <<>>,      \* the instances constructed, in order
     containers |-> 0,      \* .ai-widget-container elements appended to the body
     chatShown |-> FALSE,   \* #ai-widget-chat display is flex
     input |-> "",          \* #ai-widget-input value
     sendDisabled |-> FALSE,\* #ai-widget-send disabled
     typing |-> FALSE,      \* #ai-widget-typing display is block
     posts |-> <<>>,        \* the fetch calls made, in order
     pending |-> {}]        \* the fetch calls not yet settled

VARIABLES
    userSessions,   \* the Map: session id -> heap cell of the stored session object, 0 if none
    heap,           \* the session objects; request r allocates cell r
    req,            \* per request: the handler's locals, its position and its HTTP answer
    nreq,           \* number of requests received so far
    synth,          \* a call of the reply synthesis on its own: arguments and return value
    page            \* the browser page the widget script runs in

serverVars == <<userSessions, heap, req, nreq>>
vars == <<userSessions, heap, req, nreq, synth, page>>

\* { id, createdAt, context: {}, messages: [] } (createdAt is not modelled)
NewSession(sessionId) ==
    [id |-> sessionId, context |-> [orderId |-> "", customerInfo |-> ""], messages |-> <<>>]

\* a cell no handler has allocated
FreeCell == NewSession("")

\* the object pushed at line 136; turn tags the pushing request (it stands for
\* the identity of the pushed object, the timestamp is not modelled)
UserMessage(message, r) == [role |-> "user", content |-> message, turn |-> r]

\* r => ({ title: r.title, url: r.url, score: r.score })
ToSource(d) == [title |-> d.title, url |-> d.url, score |-> d.score]

\* the searchResults stored with the assistant message: normResults.map(...)
storedSources(normResults) == [k \in 1..Len(normResults) |-> ToSource(normResults[k])]

\* the response sources without the slice(0, 3) of line 190
responseSourcesUncut(normResults) == storedSources(normResults)

\* the sources of the response body: normResults.slice(0, 3).map(...)
responseSources(normResults) ==
    LET top == Slice(normResults, 3) IN [k \in 1..Len(top) |-> ToSource(top[k])]

\* the object pushed at line 173
AssistantMessage(response, normResults, r) ==
    [role |-> "assistant", content |-> response,
     searchResults |-> storedSources(normResults), turn |-> r]

\* a request slot before the request arrives
NoReq ==
    [kind |-> "none", pc |-> "idle", message |-> "", sessionId |-> "", orderId |-> "",
     customerInfo |-> "", session |-> 0, response |-> "", rawResults |-> <<>>,
     status |-> 0, body |-> <<>>,
     searches |-> 0,        \* retriever processes spawned by this turn
     failures |-> 0,        \* retrievals of this turn that rejected
     ctxOrderId |-> "",     \* session.context.orderId as handleOrderTracking read it
     sawStored |-> FALSE,   \* userSessions.get returned a stored session
     overlapped |-> {}]     \* turns for the same id suspended when this one began

\* the chat turns suspended at a retrieval
InFlight == {r \in Requests : req[r].pc \in {"search1", "search2"}}

\* the server after start-up: const userSessions = new Map(), no request yet
ServerIdle ==
    /\ userSessions = [s \in SessionIds |-> 0]
    /\ heap = [c \in Requests |-> FreeCell]
    /\ req = [r \in Requests |-> NoReq]
    /\ nreq = 0

Init ==
    /\ ServerIdle
    /\ synth = NoCall
    /\ page = NewPage

\* every handler falling back to one shared default object per session id
\* instead of a fresh object literal
loadSessionShared(sessionId, r) ==
    IF userSessions[sessionId] # 0 THEN userSessions[sessionId]
    ELSE IF sessionId = "s1" THEN 1 ELSE 2

\* userSessions.get(sessionId) || { fresh object }: the cell the handler of
\* request r works on
loadSession(sessionId, r) ==
    IF userSessions[sessionId] # 0 THEN userSessions[sessionId] ELSE r

\* the object in that cell when the handler of request r gets it
loadedObject(sessionId, r) ==
    IF userSessions[sessionId] # 0 THEN heap[userSessions[sessionId]]
    ELSE NewSession(sessionId)

\* if (!message || !sessionId), line 121
chatInvalid(message, sessionId) == message = "" \/ sessionId = ""

\* the track-order validation without the orderId test
trackInvalidNoOrderCheck(orderId, sessionId) == sessionId = ""

\* if (!orderId || !sessionId), line 211
trackInvalid(orderId, sessionId) == orderId = "" \/ sessionId = ""

(* POST /api/chat, lines 117-152 up to the first retrieval it awaits.  The  *)
(* awaits on handleOrderTracking and generateResponse resume in the same    *)
(* microtask checkpoint, so no other handler runs in between.               *)
ChatStart(message, sessionId) ==
    /\ nreq < MaxReq
    /\ UNCHANGED <<synth, page>>
    /\ LET r == nreq + 1 IN
       /\ nreq' = r
       /\ IF chatInvalid(message, sessionId)
          THEN /\ req' = [req EXCEPT ![r] =
                         [NoReq EXCEPT !.kind = "chat", !.pc = "done",
                                       !.message = message, !.sessionId = sessionId,
                                       !.status = 400,
                                       !.body = <<[error |-> "Message and sessionId are required"]>>]]
               /\ UNCHANGED <<userSessions, heap>>
          ELSE LET cell == loadSession(sessionId, r)
                   session == loadedObject(sessionId, r)
                   pushed == [session EXCEPT !.messages = Append(@, UserMessage(message, r))]
                   tracking == isOrderTrackingQueryOf[message]
                   \* Math.random() is drawn only where a status line is formatted
                   draws == IF tracking /\ pushed.context.orderId # ""
                            THEN RandomIndexes ELSE {1}
               IN /\ heap' = [heap EXCEPT ![cell] = pushed]
                  /\ \E rnd \in draws : req' = [req EXCEPT ![r] =
                         [NoReq EXCEPT !.kind = "chat",
                                       !.pc = IF tracking THEN "search2" ELSE "search1",
                                       !.message = message, !.sessionId = sessionId,
                                       !.session = cell,
                                       !.response = IF tracking
                                                    THEN handleOrderTracking(pushed.context, rnd)
                                                    ELSE "",
                                       !.searches = 1,
                                       !.ctxOrderId = IF tracking THEN pushed.context.orderId
                                                      ELSE "",
                                       !.sawStored = (userSessions[sessionId] # 0),
                                       !.overlapped =
                                           {q \in InFlight : req[q].sessionId = sessionId}]]
                  /\ UNCHANGED userSessions

(* line 150 resolves with value v; lines 151-156: generateResponse, then the *)
(* second retrieval is started                                              *)
Search1Resolve(r, v) ==
    /\ req[r].pc = "search1"
    /\ req' = [req EXCEPT ![r].response = generateResponseOf[req[r].message][v],
                          ![r].searches = @ + 1,
                          ![r].pc = "search2"]
    /\ UNCHANGED <<userSessions, heap, nreq, synth, page>>

(* line 150 rejects: the outer catch at lines 197-203 answers 500 *)
Search1Reject(r) ==
    /\ req[r].pc = "search1"
    /\ req' = [req EXCEPT ![r].pc = "done",
                          ![r].failures = @ + 1,
                          ![r].status = 500,
                          ![r].body = <<[error |-> "Internal server error",
                                         message |-> "Failed to process your message. Please try again."]>>]
    /\ UNCHANGED <<userSessions, heap, nreq, synth, page>>

(* line 156 resolves with value v; lines 166-195 *)
Search2Resolve(r, v) ==
    /\ req[r].pc = "search2"
    /\ LET normResults == IF v.isArray THEN v.items ELSE <<>>
           response == generateResponseOf[req[r].message][ArrayValue(normResults)]
           cell == req[r].session
       IN /\ heap' = [heap EXCEPT ![cell].messages =
                         Append(@, AssistantMessage(response, normResults, r))]
          /\ userSessions' = [userSessions EXCEPT ![req[r].sessionId] = cell]
          /\ req' = [req EXCEPT ![r].pc = "done",
                                ![r].response = response,
                                ![r].rawResults = <<v>>,
                                ![r].status = 200,
                                ![r].body = <<[response |-> response,
                                               sessionId |-> req[r].sessionId,
                                               sources |-> responseSources(normResults)]>>]
    /\ UNCHANGED <<nreq, synth, page>>

(* line 156 rejects: the inner catch at lines 157-164 answers 200 *)
Search2Reject(r) ==
    /\ req[r].pc = "search2"
    /\ req' = [req EXCEPT ![r].pc = "done",
                          ![r].failures = @ + 1,
                          ![r].status = 200,
                          ![r].body = <<[response |-> SearchTroubleReply,
                                         sessionId |-> req[r].sessionId]>>]
    /\ UNCHANGED <<userSessions, heap, nreq, synth, page>>

\* the context update assigning customerInfo whether or not the body has one
storeOrderInfoAlways(session, orderId, customerInfo) ==
    [session EXCEPT !.context.orderId = orderId, !.context.customerInfo = customerInfo]

\* session.context.orderId = orderId;
\* if (customerInfo) session.context.customerInfo = customerInfo;  (lines 226-229)
storeOrderInfo(session, orderId, customerInfo) ==
    LET withOrder == [session EXCEPT !.context.orderId = orderId]
    IN IF customerInfo # ""
       THEN [withOrder EXCEPT !.context.customerInfo = customerInfo]
       ELSE withOrder

(* POST /api/track-order, lines 207-250: synchronous, one step *)
TrackOrder(orderId, sessionId, customerInfo) ==
    /\ nreq < MaxReq
    /\ UNCHANGED <<synth, page>>
    /\ LET r == nreq + 1 IN
       /\ nreq' = r
       /\ IF trackInvalid(orderId, sessionId)
          THEN /\ req' = [req EXCEPT ![r] =
                         [NoReq EXCEPT !.kind = "track", !.pc = "done",
                                       !.orderId = orderId, !.sessionId = sessionId,
                                       !.customerInfo = customerInfo,
                                       !.status = 400,
                                       !.body = <<[error |-> "Order ID and session ID are required"]>>]]
               /\ UNCHANGED <<userSessions, heap>>
          ELSE LET cell == loadSession(sessionId, r)
                   session == loadedObject(sessionId, r)
                   stored == storeOrderInfo(session, orderId, customerInfo)
               IN /\ heap' = [heap EXCEPT ![cell] = stored]
                  /\ userSessions' = [userSessions EXCEPT ![sessionId] = cell]
                  /\ \E rnd \in RandomIndexes : req' = [req EXCEPT ![r] =
                         [NoReq EXCEPT !.kind = "track", !.pc = "done",
                                       !.orderId = orderId, !.sessionId = sessionId,
                                       !.customerInfo = customerInfo,
                                       !.session = cell,
                                       !.sawStored = (userSessions[sessionId] # 0),
                                       !.status = 200,
                                       !.body = <<[success |-> TRUE, orderId |-> orderId,
                                                   trackingInfo |->
                                                       generateMockTrackingInfo(orderId, rnd)]>>]]

\* session ids are opaque to the code and interchangeable: the first id a
\* client ever sends is called "s1", a second distinct one "s2"
SessionIdAllowed(s) == s = "s2" => \E q \in Requests : req[q].sessionId = "s1"

Next ==
    \/ \E b \in ChatBodies :
          SessionIdAllowed(b.sessionId) /\ ChatStart(b.message, b.sessionId)
    \/ \E r \in Requests, v \in SearchValues : Search1Resolve(r, v)
    \/ \E r \in Requests : Search1Reject(r)
    \/ \E r \in Requests, v \in SearchValues : Search2Resolve(r, v)
    \/ \E r \in Requests : Search2Reject(r)
    \/ \E b \in TrackBodies :
          SessionIdAllowed(b.sessionId) /\ TrackOrder(b.orderId, b.sessionId, b.customerInfo)

Spec == Init /\ [][Next]_vars

(* ---------------------------------------------------------------------- *)
(* The synthesis functions applied to every input of the bounded sets      *)
(* ---------------------------------------------------------------------- *)

SynthInit ==
    /\ ServerIdle
    /\ page = NewPage
    /\ \E c \in SynthCalls : synth = [NoCall EXCEPT !.call = c]

\* generateResponse(message, normResults, session), line 167
CallGenerateResponse ==
    /\ synth.call.fn = "generateResponse" /\ synth.returned = <<>>
    /\ synth' = [synth EXCEPT !.returned =
                     <<generateResponse(synth.call.query, ArrayValue(synth.call.hits))>>]
    /\ UNCHANGED <<serverVars, page>>

\* filterByAttributes(unique, color, size), line 345
CallFilterByAttributes ==
    /\ synth.call.fn = "filterByAttributes" /\ synth.returned = <<>>
    /\ synth' = [synth EXCEPT !.returned =
                     <<filterByAttributes(synth.call.hits, synth.call.color, synth.call.size)>>]
    /\ UNCHANGED <<serverVars, page>>

\* the deduplication loop of lines 334-342 run on a list
CallUniqueByUrl ==
    /\ synth.call.fn = "uniqueByUrl" /\ synth.returned = <<>>
    /\ synth' = [synth EXCEPT !.returned = <<uniqueByUrl(synth.call.hits)>>]
    /\ UNCHANGED <<serverVars, page>>

\* the loop run again on its own result
CallUniqueByUrlAgain ==
    /\ synth.call.fn = "uniqueByUrl" /\ synth.returned # <<>> /\ synth.again = <<>>
    /\ synth' = [synth EXCEPT !.again = <<uniqueByUrl(synth.returned[1])>>]
    /\ UNCHANGED <<serverVars, page>>

SynthNext ==
    \/ CallGenerateResponse
    \/ CallFilterByAttributes
    \/ CallUniqueByUrl
    \/ CallUniqueByUrlAgain

SynthSpec == SynthInit /\ [][SynthNext]_vars

(* ---------------------------------------------------------------------- *)
(* Properties                                                              *)
(* ---------------------------------------------------------------------- *)

\* userSessions.get(s).messages, empty when there is no entry
StoredMessages(s) == IF userSessions[s] = 0 THEN <<>> ELSE heap[userSessions[s]].messages

ChatTurns == {r \in Requests : req[r].kind = "chat"}

\* chat turns that passed validation and have been answered
Answered(s) ==
    {r \in ChatTurns : req[r].sessionId = s /\ req[r].pc = "done" /\ req[r].status # 400}

\* chat turns answered 200 with a synthesized reply and a sources list
Synthesized == {r \in ChatTurns : req[r].pc = "done" /\ req[r].status = 200
                                   /\ "sources" \in DOMAIN req[r].body[1]}

Quiet(s) == \A r \in InFlight : req[r].sessionId # s

IsPrefix(a, b) == Len(a) <= Len(b) /\ SubSeq(b, 1, Len(a)) = a

\* C1: whenever no chat turn for a session id is in flight, the stored
\* history of that id has exactly 2N messages, N the number of validated
\* and answered chat turns for the id.
C1_HistoryLengthIs2N ==
    \A s \in SessionIds :
        Quiet(s) => Len(StoredMessages(s)) = 2 * Cardinality(Answered(s))

\* C2: the stored history of every session id is append-only: in every step
\* the list stored before the step is a prefix of the list stored after it.
C2_HistoryAppendOnly ==
    [][\A s \in SessionIds : IsPrefix(StoredMessages(s), StoredMessages(s)')]_vars

\* C3: a chat turn in which a retrieval failed is answered 200 with the
\* fixed trouble-searching reply and no sources, never 500, and the
\* retriever is not invoked again in that turn.
C3_RetrievalFailureDegrades ==
    \A r \in ChatTurns :
        req[r].failures > 0 =>
            /\ req[r].pc = "done"
            /\ req[r].failures = 1
            /\ req[r].status = 200
            /\ req[r].body = <<[response |-> SearchTroubleReply,
                                sessionId |-> req[r].sessionId]>>

\* the status lines handleOrderTracking can format for an order id
StatusLines(orderId) ==
    {"Your order " \o orderId \o " status: " \o statuses[k].status \o ". "
        \o statuses[k].details : k \in 1..5}

\* C4: a turn whose message has an order-tracking keyword and no
\* personalized-account phrase, in a session whose context holds an orderId,
\* replies with the status line of that order.
C4_TrackingReplyIsStatusLine ==
    \A r \in Synthesized :
        (/\ isOrderTrackingQueryOf[req[r].message]
         /\ ~isPersonalizedQueryOf[req[r].message]
         /\ req[r].ctxOrderId # "")
            => req[r].body[1].response \in StatusLines(req[r].ctxOrderId)

\* C5: a turn whose message isOrderTrackingQuery accepts, in a session with
\* no orderId in its context, replies with exactly the ask-for-order-id prompt.
C5_TrackingWithoutOrderIdAsks ==
    \A r \in Synthesized :
        (isOrderTrackingQueryOf[req[r].message] /\ req[r].ctxOrderId = "")
            => req[r].body[1].response = AskOrderIdReply

\* C6: an answered validated chat turn invoked the retriever 0 times when its
\* message is order-tracking or personalized-account, and exactly once when
\* it is product-inquiry or general-knowledge.
C6_RetrievalCount ==
    \A r \in ChatTurns :
        (req[r].pc = "done" /\ req[r].status # 400) =>
            req[r].searches =
                IF isOrderTrackingQueryOf[req[r].message]
                      \/ isPersonalizedQueryOf[req[r].message]
                THEN 0 ELSE 1

Disclaimers ==
    {OrderDisclaimer, RefundDisclaimer, ReturnDisclaimer, PaymentDisclaimer, GenericDisclaimer}

\* the messages that contain one of the personalized-account phrases
hasPersonalPhrase ==
    [m \in ChatMessages |-> \E k \in personalKeywords : Includes(ToLowerCase(m), k)]

\* C7: every synthesized reply to a message containing a personalized-account
\* phrase is one of the five disclaimer templates, whatever other keywords the
\* message has and whatever the session context holds.
C7_PersonalizedPriority ==
    \A r \in Synthesized :
        hasPersonalPhrase[req[r].message] => req[r].body[1].response \in Disclaimers

\* a personalized message that is also an order-tracking query was answered
\* with a disclaimer in a session that holds an order id
C7_Witness ==
    \E r \in Synthesized :
        /\ isPersonalizedQueryOf[req[r].message]
        /\ isOrderTrackingQueryOf[req[r].message]
        /\ req[r].ctxOrderId # ""
        /\ req[r].body[1].response \in Disclaimers

\* the documents a retrieval resolved with (none when the value is no array)
Retrieved(r) == IF req[r].rawResults[1].isArray THEN req[r].rawResults[1].items ELSE <<>>

\* C8: the sources of a successful chat response are the first min(3, n) of
\* the n documents retrieved for the turn, in order, each reduced to exactly
\* title, url and score, unchanged.
C8_SourcesArePrefix ==
    \A r \in Synthesized :
        LET docs == Retrieved(r)
            sources == req[r].body[1].sources
        IN /\ Len(sources) = Min(3, Len(docs))
           /\ \A k \in 1..Len(sources) :
                 sources[k] = [title |-> docs[k].title, url |-> docs[k].url,
                               score |-> docs[k].score]

\* one response cites 3 sources out of 4 retrieved documents, another both of
\* the 2 documents retrieved
C8_Witness ==
    /\ \E r \in Synthesized : Len(Retrieved(r)) = 4 /\ Len(req[r].body[1].sources) = 3
    /\ \E r \in Synthesized : Len(Retrieved(r)) = 2 /\ Len(req[r].body[1].sources) = 2

\* C9: a chat request without message or sessionId, and a track-order request
\* without orderId or sessionId, is answered 400, starts no retrieval and
\* leaves the session map and every session object unchanged.
C9_InvalidRequestNoEffect ==
    [][\A r \in Requests :
          (/\ req[r].kind = "none" /\ req'[r].kind # "none"
           /\ \/ req'[r].sessionId = ""
              \/ req'[r].kind = "chat" /\ req'[r].message = ""
              \/ req'[r].kind = "track" /\ req'[r].orderId = "")
             => /\ req'[r].status = 400
                /\ req'[r].pc = "done"
                /\ req'[r].searches = 0
                /\ userSessions' = userSessions
                /\ heap' = heap]_vars

\* an invalid request was answered 400 after an earlier request had stored a
\* session
C9_Witness ==
    \E q \in Requests, r \in Requests :
        /\ q < r
        /\ req[q].status = 200 /\ userSessions[req[q].sessionId] # 0
        /\ req[r].status = 400 /\ req[r].searches = 0

\* the stored history of s holds a message pushed by turn r
HasMessagesOf(s, r) ==
    \E k \in 1..Len(StoredMessages(s)) : StoredMessages(s)[k].turn = r

\* b began while a, the first request for the id, was suspended at a retrieval,
\* no other request names the id, and both were answered with a reply
OverlappedPair(a, b) ==
    /\ a \in req[b].overlapped
    /\ ~req[a].sawStored
    /\ req[a].sessionId = req[b].sessionId
    /\ a \in Synthesized /\ b \in Synthesized
    /\ \A q \in Requests \ {a, b} : req[q].sessionId # req[a].sessionId

\* C10: two chat turns for one session id that overlap at the retrieval
\* suspension point are not serialized: once both have returned their reply
\* the stored history lacks the messages of one of them.
C10_OverlapLosesTurn ==
    \A a \in Requests, b \in Requests :
        OverlappedPair(a, b) =>
            \E x \in {a, b} : ~HasMessagesOf(req[a].sessionId, x)

\* both overlapping turns have returned, the history holds a single turn
C10_Witness ==
    \E a \in Requests, b \in Requests :
        /\ OverlappedPair(a, b)
        /\ Len(StoredMessages(req[a].sessionId)) = 2

\* the five status/details pairs generateMockTrackingInfo draws from
TrackingPairs == {statuses[k] : k \in 1..5}

\* userSessions.get(s).context, the context of a fresh session when there is no entry
StoredContext(s) ==
    IF userSessions[s] = 0 THEN NewSession(s).context ELSE heap[userSessions[s]].context

\* C11: a track-order request with orderId and sessionId leaves the session
\* stored, with context.orderId the given one, context.customerInfo the given
\* one when supplied and the previous one otherwise, the message list of that
\* session and the entry and object of every other session unchanged, and is
\* answered success with the same orderId and one of the five fixed pairs.
C11_TrackOrderFrame ==
    [][\A r \in Requests, s \in SessionIds :
          (/\ req[r].kind = "none" /\ req'[r].kind = "track"
           /\ req'[r].orderId # "" /\ req'[r].sessionId = s)
             => /\ userSessions'[s] # 0
                /\ StoredContext(s)'.orderId = req'[r].orderId
                /\ StoredContext(s)'.customerInfo =
                       IF req'[r].customerInfo # "" THEN req'[r].customerInfo
                       ELSE StoredContext(s).customerInfo
                /\ StoredMessages(s)' = StoredMessages(s)
                /\ \A t \in SessionIds \ {s} :
                       /\ userSessions'[t] = userSessions[t]
                       /\ userSessions[t] # 0 => heap'[userSessions[t]] = heap[userSessions[t]]
                /\ req'[r].status = 200
                /\ DOMAIN req'[r].body[1] = {"success", "orderId", "trackingInfo"}
                /\ req'[r].body[1].success = TRUE
                /\ req'[r].body[1].orderId = req'[r].orderId
                /\ req'[r].body[1].trackingInfo \in TrackingPairs]_vars

\* a track-order request without customerInfo was answered for a session whose
\* stored context already held the customerInfo of an earlier request, and
\* the context still holds it
C11_Witness ==
    \E q \in Requests, r \in Requests :
        /\ q < r
        /\ req[q].kind = "track" /\ req[q].status = 200 /\ req[q].customerInfo # ""
        /\ req[r].kind = "track" /\ req[r].status = 200 /\ req[r].customerInfo = ""
        /\ req[r].sessionId = req[q].sessionId
        /\ StoredContext(req[r].sessionId).customerInfo = req[q].customerInfo
        /\ StoredContext(req[r].sessionId).orderId = req[r].orderId

\* the template handlePersonalizedQuery selects for each message
handlePersonalizedQueryOf == [m \in ChatMessages |-> handlePersonalizedQuery(m)]

\* C12: every answered turn whose message is personalized-account is answered
\* with exactly the disclaimer template handlePersonalizedQuery selects for
\* the message (first match of order/delivery/package, refund, return,
\* payment, else generic), whatever the retrievals of the turn resolved with
\* and whether they failed.
C12_PersonalizedReplyIsTemplate ==
    \A r \in ChatTurns :
        (req[r].pc = "done" /\ req[r].status # 400 /\ isPersonalizedQueryOf[req[r].message])
            => /\ req[r].status = 200
               /\ req[r].body[1].response = handlePersonalizedQueryOf[req[r].message]

\* C20: in every state after a track-order request for a session id was
\* answered with success, the context stored for that id holds an orderId,
\* whatever chat turns for the id were in flight or ran afterwards.
C20_OrderIdPersists ==
    \A r \in Requests :
        (req[r].kind = "track" /\ req[r].status = 200)
            => StoredContext(req[r].sessionId).orderId # ""

(* ---------------------------------------------------------------------- *)
(* The widget script, its instances and their handlers                     *)
(* ---------------------------------------------------------------------- *)

\* the script may first run while the document loads or after
WidgetInit ==
    /\ ServerIdle
    /\ synth = NoCall
    /\ \E rs \in {"loading", "complete"} : page = [NewPage EXCEPT !.readyState = rs]

\* window.AIAssistantWidget = new AIAssistantWidget(): the constructor
\* (lines 8-15) and createWidget's appendChild (line 263)
Construct(p, sessionId) ==
    [p EXCEPT !.widgets = Append(@, NewWidget(sessionId)),
              !.containers = @ + 1,
              !.global = Len(p.widgets) + 1]

RECURSIVE ConstructAll(_, _)
\* the deferred listeners run one after the other
ConstructAll(p, sessionIds) ==
    IF sessionIds = <<>> THEN p
    ELSE ConstructAll(Construct(p, Head(sessionIds)), Tail(sessionIds))

\* if (window.AIAssistantWidget) return; (lines 3-5)
guardPassed(p) == p.global = 0

\* the script is executed: the guard, then lines 387-393
RunScript ==
    /\ page.runs < MaxRuns
    /\ LET p == [page EXCEPT !.runs = @ + 1] IN
       IF ~guardPassed(page) THEN page' = p
       ELSE IF page.readyState = "loading"
       THEN page' = [p EXCEPT !.deferred = @ + 1]
       ELSE \E sid \in WidgetSessionIds : page' = Construct(p, sid)
    /\ UNCHANGED <<serverVars, synth>>

\* the document finishes loading: every registered listener constructs
DOMContentLoaded ==
    /\ page.readyState = "loading"
    /\ \E sids \in [1..page.deferred -> WidgetSessionIds] :
          page' = ConstructAll([page EXCEPT !.readyState = "complete", !.deferred = 0], sids)
    /\ UNCHANGED <<serverVars, synth>>

\* a click on the toggle button: toggleChat of every instance (lines 291-301)
ToggleChat ==
    /\ Len(page.widgets) >= 1
    /\ page' = [page EXCEPT
                    !.widgets = [k \in 1..Len(page.widgets) |->
                                    [page.widgets[k] EXCEPT !.isOpen = ~@]],
                    !.chatShown = ~page.widgets[Len(page.widgets)].isOpen]
    /\ UNCHANGED <<serverVars, synth>>

\* a click on the close button: closeChat of every instance (lines 303-307)
CloseChat ==
    /\ Len(page.widgets) >= 1
    /\ page' = [page EXCEPT
                    !.widgets = [k \in 1..Len(page.widgets) |->
                                    [page.widgets[k] EXCEPT !.isOpen = FALSE]],
                    !.chatShown = FALSE]
    /\ UNCHANGED <<serverVars, synth>>

\* the visitor edits the field: the input listener of lines 286-288
TypeInput(text) ==
    /\ Len(page.widgets) >= 1
    /\ page' = [page EXCEPT !.input = text, !.sendDisabled = (Trim(text) = "")]
    /\ UNCHANGED <<serverVars, synth>>

\* a click on the send button or Enter in the field: sendMessage up to its
\* await fetch (lines 309-332).  The listeners of every instance run, in the
\* order the instances were constructed; the first empties the field, so the
\* later ones return at line 311
SendMessage(via) ==
    /\ Len(page.widgets) >= 1
    /\ via = "click" => ~page.sendDisabled
    /\ Len(page.posts) < MaxSends
    /\ LET message == Trim(page.input)
           w == page.widgets[1]
       IN IF message = "" THEN page' = page
          ELSE page' = [page EXCEPT
                  !.widgets[1].messages = Append(@, [role |-> "user", content |-> message]),
                  !.input = "",
                  !.sendDisabled = TRUE,
                  !.typing = TRUE,
                  !.posts = Append(@, [url |-> TemplateString(w.apiBaseUrl),
                                       method |-> "POST",
                                       body |-> [message |-> message,
                                                 sessionId |-> w.sessionId]]),
                  !.pending = @ \cup {Len(page.posts) + 1}]
    /\ UNCHANGED <<serverVars, synth>>

\* the fetch of post i settles: with a response that is ok (lines 334-341) or
\* not, or with a network error (lines 343-346); then line 348
Settle(i, ok) ==
    /\ i \in page.pending
    /\ page' = [page EXCEPT
            !.widgets[1].messages =
                Append(@, [role |-> "assistant",
                           content |-> IF ok THEN "data.response" ELSE ConnectionTroubleReply]),
            !.typing = FALSE,
            !.pending = @ \ {i}]
    /\ UNCHANGED <<serverVars, synth>>

WidgetNext ==
    \/ RunScript
    \/ DOMContentLoaded
    \/ ToggleChat
    \/ CloseChat
    \/ \E text \in InputTexts : TypeInput(text)
    \/ \E via \in {"click", "enter"} : SendMessage(via)
    \/ \E i \in 1..MaxSends, ok \in BOOLEAN : Settle(i, ok)

WidgetSpec == WidgetInit /\ [][WidgetNext]_vars

(* ---------------------------------------------------------------------- *)
(* Properties of the product synthesis                                     *)
(* ---------------------------------------------------------------------- *)

RECURSIVE SplitLines(_)
\* the lines of a reply
SplitLines(s) ==
    LET breaks == {i \in 1..Len(s) : CharAt(s, i) = "\n"} IN
    IF breaks = {} THEN <<s>>
    ELSE LET i == CHOOSE k \in breaks : \A j \in breaks : k <= j IN
         <<SubSeq(s, 1, i - 1)>> \o SplitLines(SubSeq(s, i + 1, Len(s)))

StartsWith(s, prefix) == Len(s) >= Len(prefix) /\ SubSeq(s, 1, Len(prefix)) = prefix

\* the elements of seq at the indices idx, in order
SelectAt(seq, idx) ==
    [i \in 1..Cardinality(idx) |->
        seq[CHOOSE k \in idx : Cardinality({j \in idx : j < k}) = i - 1]]

\* a is b with some elements left out
IsSubList(a, b) ==
    \E f \in [1..Len(a) -> 1..Len(b)] :
        /\ \A i \in 1..Len(a) : a[i] = b[f[i]]
        /\ \A i \in 1..Len(a), j \in 1..Len(a) : i < j => f[i] < f[j]

\* generateResponse has returned the reply to a product-inquiry message for
\* which at least one document was retrieved
ProductReplied ==
    /\ synth.call.fn = "generateResponse" /\ synth.returned # <<>>
    /\ isProductQuery(synth.call.query) /\ ~isPersonalizedQuery(synth.call.query)
    /\ Len(synth.call.hits) >= 1

\* C13: the reply to a product-inquiry message that asks for the price and
\* names a color and a size, when the best-ranked document has a variant of
\* that color and size with a price and no compare-at price, contains the
\* line "Price: <that price> (in stock)" if the variant is available and
\* "(out of stock)" if not, and its last line is a "More details:" trailer.
C13_PriceOfRequestedVariant ==
    ProductReplied =>
        LET lower == ToLowerCase(synth.call.query)
            color == queryColor(lower)
            size == querySize(lower)
            variants == InfoOf(synth.call.hits[1]).variants
            lines == SplitLines(synth.returned[1])
        IN (SomeIncluded(lower, priceWords) /\ color # "" /\ size # "") =>
              \A k \in 1..Len(variants) :
                  (/\ ToLowerCase(variants[k].color) = color
                   /\ ToLowerCase(variants[k].size) = size
                   /\ variants[k].price # "" /\ variants[k].compare_at_price = "")
                     => /\ \E i \in 1..Len(lines) :
                              lines[i] = "Price: " \o variants[k].price
                                 \o (IF variants[k].available = <<TRUE>>
                                     THEN " (in stock)" ELSE " (out of stock)")
                        /\ StartsWith(lines[Len(lines)], "More details:")

\* the intent flags: the trigger words of each and how a line for it begins
IntentFlags ==
    {[words |-> priceWords, prefixes |-> {"Price: ", "Price from: "}, snippet |-> FALSE],
     [words |-> availabilityWords, prefixes |-> {"Availability: "}, snippet |-> FALSE],
     [words |-> materialWords, prefixes |-> {"Materials: ", "Care: "}, snippet |-> TRUE],
     [words |-> optionsWords, prefixes |-> {"Colors: ", "Sizes: "}, snippet |-> TRUE],
     [words |-> warrantyWords,
      prefixes |-> {"Warranty: ", "Warranty details not specified"}, snippet |-> FALSE],
     [words |-> shippingWords,
      prefixes |-> {"Shipping: ", "Shipping/returns details not specified"}, snippet |-> FALSE],
     [words |-> imageWords, prefixes |-> {"Image: ", "No image found"}, snippet |-> FALSE],
     [words |-> weightWords, prefixes |-> {"Weight: ", "Weight not specified"}, snippet |-> FALSE]}

\* the fallback line made of the text snippet of one of the documents
IsSnippetLine(line, hits) ==
    \E k \in 1..Len(hits) :
        line = Trim(SubSeq(hits[k].text, 1, Min(220, Len(hits[k].text)))) \o Ellipsis

\* C15: in the reply synthesized from a selected document, every intent flag
\* the message matches has at least one line between the title and the
\* trailer: the fact or a not-specified or fallback line.
C15_EveryIntentHasLine ==
    (ProductReplied /\ synth.returned[1] # "") =>
        LET lower == ToLowerCase(synth.call.query)
            lines == SplitLines(synth.returned[1])
        IN \A flag \in IntentFlags :
              SomeIncluded(lower, flag.words) =>
                  \E i \in 2..(Len(lines) - 1) :
                      \/ \E p \in flag.prefixes : StartsWith(lines[i], p)
                      \/ flag.snippet /\ IsSnippetLine(lines[i], synth.call.hits)

\* C16: the reply synthesized for a product-inquiry message when at least
\* one document was retrieved is non-empty, and its last line is "More
\* details: " followed by the url of the first document that survives the
\* deduplication and the attribute filter.
C16_ReplyEndsWithTrailer ==
    ProductReplied =>
        LET lower == ToLowerCase(synth.call.query)
            surviving == filterByAttributes(uniqueByUrl(synth.call.hits),
                                            queryColor(lower), querySize(lower))
            lines == SplitLines(synth.returned[1])
        IN /\ synth.returned[1] # ""
           /\ surviving # <<>>
           /\ lines[Len(lines)] = "More details: " \o surviving[1].url

\* filterByAttributes has returned
Filtered == synth.call.fn = "filterByAttributes" /\ synth.returned # <<>>

\* the document has one variant matching every requested attribute, or its
\* text contains every requested token
Qualifies(h, color, size) ==
    \/ \E k \in 1..Len(InfoOf(h).variants) :
          /\ (color = "" \/ ToLowerCase(InfoOf(h).variants[k].color) = color)
          /\ (size = "" \/ ToLowerCase(InfoOf(h).variants[k].size) = size)
    \/ /\ (color = "" \/ Includes(ToLowerCase(h.text), color))
       /\ (size = "" \/ Includes(ToLowerCase(h.text), size))

\* C17: filterByAttributes returns the qualifying documents in input order,
\* and hits unchanged when no attribute is requested or no document
\* qualifies; a non-empty input never gives an empty result and the result
\* is an order-preserving sub-list of hits.
C17_FilterByAttributes ==
    Filtered =>
        LET hits == synth.call.hits
            color == synth.call.color
            size == synth.call.size
            out == synth.returned[1]
            qualifying == {k \in 1..Len(hits) : Qualifies(hits[k], color, size)}
        IN /\ out = IF (color = "" /\ size = "") \/ qualifying = {}
                    THEN hits ELSE SelectAt(hits, qualifying)
           /\ hits # <<>> => out # <<>>
           /\ IsSubList(out, hits)

\* an attribute was requested and the filter kept some documents and dropped others
C17_Witness ==
    /\ Filtered
    /\ synth.call.color # ""
    /\ 0 < Len(synth.returned[1]) /\ Len(synth.returned[1]) < Len(synth.call.hits)

\* C18: the URL deduplication returns the input list without the documents
\* whose URL equals the URL of an earlier document and with nothing else
\* removed, in the input order; running it on its own result changes nothing.
C18_DedupRemovesOnlyRepeats ==
    (synth.call.fn = "uniqueByUrl" /\ synth.returned # <<>>) =>
        LET hits == synth.call.hits
            firsts == {k \in 1..Len(hits) :
                          ~\E j \in 1..(k - 1) : hits[j].url = hits[k].url}
        IN /\ synth.returned[1] = SelectAt(hits, firsts)
           /\ synth.again # <<>> => synth.again = synth.returned


(* ---------------------------------------------------------------------- *)
(* Properties of the widget                                                *)
(* ---------------------------------------------------------------------- *)

\* the user messages instance 1 has shown, in order
UserBubbles ==
    SelectSeq(page.widgets[1].messages, LAMBDA m : m.role = "user")

\* C14: every sendMessage with non-empty trimmed input has issued exactly one
\* POST, to the apiUrl of the widget instance, with body {message: the trimmed
\* input, sessionId: the sessionId of the instance}, the same for every send.
C14_PostsGoToApiUrl ==
    Len(page.widgets) >= 1 =>
        /\ Len(page.posts) = Len(UserBubbles)
        /\ \A i \in 1..Len(page.posts) :
              /\ page.posts[i].method = "POST"
              /\ page.posts[i].url = page.widgets[1].apiUrl
              /\ page.posts[i].body = [message |-> UserBubbles[i].content,
                                       sessionId |-> page.widgets[1].sessionId]
              /\ Trim(page.posts[i].body.message) = page.posts[i].body.message

\* C19: at most one widget instance is constructed and at most one widget
\* container is added to the page, however often the script runs and
\* whatever the document's ready state at each run.
C19_SingleInstance ==
    Len(page.widgets) <= 1 /\ page.containers <= 1

(* ---------------------------------------------------------------------- *)
(* Shape of the stored history                                             *)
(* ---------------------------------------------------------------------- *)

\* C21: whenever no chat turn for a session id is in flight, the history
\* stored for the id is a sequence of pairs, a user message immediately
\* followed by the assistant message of the same turn: no user message lacks
\* its reply and no two messages of one role are adjacent.
C21_HistoryIsPairs ==
    \A s \in SessionIds :
        Quiet(s) =>
            LET h == StoredMessages(s) IN
            /\ Len(h) % 2 = 0
            /\ \A k \in 1..Len(h) :
                  k % 2 = 1 =>
                      /\ h[k].role = "user"
                      /\ h[k + 1].role = "assistant"
                      /\ h[k + 1].turn = h[k].turn

(* ---------------------------------------------------------------------- *)
(* The typing indicator of the widget                                      *)
(* ---------------------------------------------------------------------- *)

\* C22: the typing indicator is shown in every state in which at least one
\* sendMessage is still awaiting the answer to its request, and hidden in
\* every state in which none is.
C22_TypingWhilePending ==
    page.typing <=> (page.pending # {})

====
